---- MODULE Spec2Model ----
(***************************************************************************)
(* katalis: a typed layer (key codec, value codec) over a byte-keyed raw   *)
(* store.  The model covers the codecs, the typed CRUD operations of DB    *)
(* and the three iteration strategies Items, AllItems and Fold (Spec), and *)
(* the codecs called on their own (CodecSpec).                             *)
(*                                                                         *)
(* Byte slices are sequences of 0..255; a nil slice and an empty slice are *)
(* both <<>>.  A Go error is a sequence of error names: nil is <<>> and    *)
(* errors.Join is concatenation.  An optional typed value is a sequence of *)
(* length 0 (none) or 1.  The raw store is a set of <<key, value>> pairs.  *)
(***************************************************************************)
EXTENDS Integers, Sequences, FiniteSets, TLC

\* Non-sentinel errors one raw cursor may return during one iteration.
MaxIOErr == 1

\* Number of distinct string keys / int keys the callers use.
NumKeys == 2

\* Ranges a consumer makes over one returned sequence.
MaxRanges == 2

\* Goroutines that call Get at the same time.
NumReaders == 2

----------------------------------------------------------------------------
(* Codecs *)

\* A Go integer of any width is its 64-bit two's-complement pattern, written
\* as four 16-bit limbs, most significant first (TLC's integers are 32 bits
\* wide, too narrow for uint32 and the 64-bit types).

\* The limbs of a small integer -2^31 <= n < 2^31.
FromInt(n) == IF n >= 0 THEN <<0, 0, n \div 65536, n % 65536>>
          ELSE LET m == (n + 2147483647) + 1
               IN  <<65535, 65535, 32768 + (m \div 65536), m % 65536>>

\* The low w bytes of a word, as limbs.
Low(w, x) == SubSeq(x, 5 - (w \div 2), 4)

\* Conversion to the unsigned Go type of w bytes (uint16(x), uint32(x), ...).
ToUnsigned(w, x) == [n \in 1..(4 - (w \div 2)) |-> 0] \o Low(w, x)

\* Conversion to the signed Go type of w bytes (int16(x), int32(x), ...).
ToSigned(w, x) ==
    [n \in 1..(4 - (w \div 2)) |-> IF Low(w, x)[1] >= 32768 THEN 65535 ELSE 0] \o Low(w, x)

\* binary.LittleEndian.PutUint16/32/64 in the place of the big-endian write.
PutUintLittleEndian(w, x) ==
    [n \in 1..w |-> IF n % 2 = 1 THEN Low(w, x)[((w \div 2) + 1) - ((n + 1) \div 2)] % 256
                    ELSE Low(w, x)[((w \div 2) + 1) - ((n + 1) \div 2)] \div 256]

\* binary.BigEndian.PutUint16/32/64 on a fresh slice of w bytes.
PutUint(w, x) ==
    [n \in 1..w |-> IF n % 2 = 1 THEN Low(w, x)[(n + 1) \div 2] \div 256
                    ELSE Low(w, x)[(n + 1) \div 2] % 256]

\* binary.LittleEndian.Uint16/32/64 in the place of the big-endian read.
LittleEndian(w, b) ==
    [n \in 1..(4 - (w \div 2)) |-> 0]
        \o [n \in 1..(w \div 2) |-> (b[(w + 2) - (2 * n)] * 256) + b[(w + 1) - (2 * n)]]

\* binary.BigEndian.Uint16/32/64: the unsigned value of the first w bytes.
BigEndian(w, b) ==
    [n \in 1..(4 - (w \div 2)) |-> 0] \o [n \in 1..(w \div 2) |-> (b[(2 * n) - 1] * 256) + b[2 * n]]

\* Widths with int and uint written at the width of a 64-bit host.
WidthOfHost(c) == CASE c \in {"uint16", "int16"} -> 2
                    [] c \in {"uint32", "int32", "float32"} -> 4
                    [] c \in {"uint64", "int64", "float64", "uint", "int"} -> 8

\* Width in bytes of the fixed-width numeric codecs.
Width(c) == CASE c \in {"uint16", "int16"} -> 2
              [] c \in {"uint32", "int32", "uint", "int", "float32"} -> 4
              [] c \in {"uint64", "int64", "float64"} -> 8

\* intCodec built on UintCodec, without the conversion to int32.
SignedFixedOnly(c) == c \in {"int16", "int32", "int64"}

Signed(c) == c \in {"int16", "int32", "int64", "int"}
\* A float is its IEEE-754 bit pattern (math.Float32bits, math.Float64bits),
\* which its codec passes through the unsigned codec of the same width.
Numeric(c) == c \in {"uint16", "int16", "uint32", "int32", "uint", "int",
                     "uint64", "int64", "float32", "float64"}

\* Values of the type gob-encoded in the model: a struct with one interface
\* field V.  V = 0 is the zero value; V = -1 holds a concrete type that was
\* never registered, which gob refuses to encode.
GobZero == [V |-> 0]
GobUnencodable == [V |-> 0 - 1]

\* The zero value of the codec's Go type.
Zero(c) == CASE Numeric(c) -> FromInt(0)
             [] c \in {"string", "bytes"} -> <<>>
             [] c = "gob" -> GobZero

\* uintNCodec.Encode, intNCodec.Encode, uintCodec.Encode, intCodec.Encode.
NumEncode(c, x) ==
    [b |-> IF Signed(c) THEN PutUint(Width(c), ToUnsigned(Width(c), ToSigned(Width(c), x)))
           ELSE PutUint(Width(c), ToUnsigned(Width(c), x)),
     err |-> <<>>]

\* GobCodec.Encode: a stream of a type descriptor (255) and the value; an
\* unencodable value gives an error.
GobEncode(v) == IF v = GobUnencodable THEN [b |-> <<>>, err |-> <<"GobEncodeErr">>]
                ELSE [b |-> <<255, v.V>>, err |-> <<>>]

\* Codec.Encode: the bytes and the error.
Encode(c, v) == CASE Numeric(c) -> NumEncode(c, v)
                  [] c \in {"string", "bytes"} -> [b |-> v, err |-> <<>>]
                  [] c = "gob" -> GobEncode(v)

\* uintNCodec.Decode and the codecs built on it: the indexed read of
\* binary.BigEndian panics when b is shorter than the width.
NumDecode(c, b) ==
    IF Len(b) < Width(c) THEN [v |-> FromInt(0), err |-> <<>>, panic |-> TRUE]
    ELSE [v |-> IF Signed(c) THEN ToSigned(Width(c), BigEndian(Width(c), b))
                ELSE BigEndian(Width(c), b),
          err |-> <<>>, panic |-> FALSE]

\* GobCodec.Decode: io.EOF on empty input, an error on a truncated stream or
\* on a stream of another type; the target keeps its zero value on error.
GobDecode(b) ==
    IF Len(b) = 0 THEN [v |-> GobZero, err |-> <<"EOF">>, panic |-> FALSE]
    ELSE IF b[1] # 255 THEN [v |-> GobZero, err |-> <<"GobTypeErr">>, panic |-> FALSE]
    ELSE IF Len(b) < 2 THEN [v |-> GobZero, err |-> <<"UnexpectedEOF">>, panic |-> FALSE]
    ELSE [v |-> [V |-> b[2]], err |-> <<>>, panic |-> FALSE]

\* A string decoder that replaces each byte above 0x7F, which is not valid
\* UTF-8 on its own, by U+FFFD (0xEF 0xBF 0xBD).
RECURSIVE ToValidUTF8(_)
ToValidUTF8(b) ==
    IF b = <<>> THEN <<>>
    ELSE (IF b[1] > 127 THEN <<239, 191, 189>> ELSE <<b[1]>>) \o ToValidUTF8(Tail(b))

DecodeToValidUTF8(c, b) ==
    CASE Numeric(c) -> NumDecode(c, b)
      [] c = "string" -> [v |-> ToValidUTF8(b), err |-> <<>>, panic |-> FALSE]
      [] c = "bytes" -> [v |-> b, err |-> <<>>, panic |-> FALSE]
      [] c = "gob" -> GobDecode(b)

\* Codec.Decode: the value, the error, and whether the call panicked.
Decode(c, b) == CASE Numeric(c) -> NumDecode(c, b)
                  [] c \in {"string", "bytes"} -> [v |-> b, err |-> <<>>, panic |-> FALSE]
                  [] c = "gob" -> GobDecode(b)

\* errors.Join of two errors.
Join(e1, e2) == e1 \o e2

\* isTerminate: the cursor's ErrIterationDone, or io.EOF.
isTerminate(e) == \E i \in 1..Len(e) : e[i] \in {"ErrIterationDone", "EOF"}

----------------------------------------------------------------------------
(* The stores the model opens and the inputs of their callers *)

\* (key codec, value codec) pairs passed to Open.
Configs == {<<"string", "int">>, <<"int", "string">>, <<"gob", "gob">>}

\* Typed values the callers pass for a codec's type.
IntInputs == {FromInt(0), FromInt(42), FromInt(-2147483647 - 1)}
StrInputs == {<<>>, <<118, 49>>, <<118, 50>>}
GobInputs == {GobZero, [V |-> 1], GobUnencodable}

KeysOf(c) == CASE c = "string" -> {<<96 + n>> : n \in 1..NumKeys}
               [] c = "int" -> {FromInt((n * 43) - 85) : n \in 1..NumKeys}
               [] c = "gob" -> {[V |-> 1], [V |-> 2], GobUnencodable}

ValsOf(c) == CASE c = "string" -> StrInputs
               [] c = "int" -> IntInputs
               [] c = "gob" -> GobInputs

VARIABLES keyCodec, valCodec, store, lastOp, res,
          itKind, itState, cursor, visited, out, ioErrs, foldErr, foldRet,
          opens, ranges, prior, turns, readers, mark,
          call, before

\* The state of a store and of its caller's iteration.
dbVars == <<keyCodec, valCodec, store, lastOp, res,
            itKind, itState, cursor, visited, out, ioErrs, foldErr, foldRet,
            opens, ranges, prior, turns, readers, mark>>

\* The latest direct call of a codec and the one before it.
codecVars == <<call, before>>

vars == <<dbVars, codecVars>>

\* The goroutines that read the store at the same time.
Readers == 1..NumReaders

\* A goroutine that is in no call of Get or Has.
NoRead == [pc |-> "idle", op |-> "none", key |-> <<>>, kb |-> <<>>, b |-> <<>>,
           val |-> <<>>, found |-> FALSE, err |-> <<>>, panic |-> FALSE]

\* No range was made over the sequence before the latest one.
NoMark == [from |-> "none", n |-> 0, v |-> 0, seen |-> {}]

\* No direct codec call was made.
NoCall == [op |-> "none", c |-> "none", v |-> <<>>, b |-> <<>>, err |-> <<>>, panic |-> FALSE]


\* Key bytes no Encode of the key codec produces, written through the embedded
\* raw handle or left by a store written with other codecs.
ForeignKeysOf(c) == CASE c = "string" -> {}
                      [] c = "int" -> {<<1>>}
                      [] c = "gob" -> {<<255>>}

\* Value bytes no Encode of the value codec produces.
ForeignValsOf(c) == CASE c = "string" -> {}
                      [] c = "int" -> {<<1>>}
                      [] c = "gob" -> {<<9, 9>>}

EncodedOf(c, S) == {Encode(c, v).b : v \in {x \in S : Encode(c, x).err = <<>>}}

RawKeys == EncodedOf(keyCodec, KeysOf(keyCodec)) \cup ForeignKeysOf(keyCodec)
RawVals == EncodedOf(valCodec, ValsOf(valCodec)) \cup ForeignValsOf(valCodec)

----------------------------------------------------------------------------
(* The raw store: a set of <<key bytes, value bytes>> with unique keys *)

\* pogreb Get: the value, or nil when the key is absent.
RawGet(s, kb) == IF \E p \in s : p[1] = kb THEN (CHOOSE p \in s : p[1] = kb)[2] ELSE <<>>
RawHas(s, kb) == \E p \in s : p[1] = kb
\* A delete that removes nothing.
RawDeleteNothing(s, kb) == s

RawDelete(s, kb) == {p \in s : p[1] # kb}

\* A put that keeps the value of a key already present.
RawPutKeepsOld(s, kb, vb) == IF \E p \in s : p[1] = kb THEN s ELSE s \cup {<<kb, vb>>}

RawPut(s, kb, vb) == RawDelete(s, kb) \cup {<<kb, vb>>}


----------------------------------------------------------------------------
(* Typed CRUD operations *)

\* What the most recent operation returned, and the raw-store calls it made.
Result(op, key, val, ok, err, panic, raw) ==
    [op |-> op, key |-> key, val |-> val, ok |-> ok, err |-> err,
     panic |-> panic, raw |-> raw]

Note(k, op, v) == [lastOp EXCEPT ![k] = [op |-> op, v |-> v]]

Init ==
    /\ \E cfg \in Configs : keyCodec = cfg[1] /\ valCodec = cfg[2]
    /\ store = {}
    /\ lastOp = [k \in KeysOf(keyCodec) |-> [op |-> "none", v |-> <<>>]]
    /\ res = Result("Open", <<>>, <<>>, FALSE, <<>>, FALSE, <<>>)
    /\ itKind = "none" /\ itState = "Idle" /\ cursor = {} /\ visited = <<>>
    /\ out = <<>> /\ ioErrs = 0 /\ foldErr = <<>> /\ foldRet = <<>>
    /\ opens = 0 /\ ranges = 0 /\ prior = "none" /\ turns = 0
    /\ readers = [g \in Readers |-> NoRead] /\ mark = NoMark
    /\ call = NoCall /\ before = NoCall

\* A caller is between opening an iteration and its end.
Iterating == itState \in {"Created", "Active"}

\* The caller is in an iteration or still holds the sequence of one that
\* ended; it makes its next CRUD call once it has left the iteration.
Holding == itState # "Idle"

\* No iteration is in progress after the operation.
NoIter ==
    /\ itKind' = "none" /\ itState' = "Idle" /\ cursor' = {} /\ visited' = <<>>
    /\ out' = <<>> /\ ioErrs' = 0 /\ foldErr' = <<>> /\ foldRet' = <<>>
    /\ opens' = 0 /\ ranges' = 0 /\ prior' = "none" /\ mark' = NoMark

\* DB.Get
Get(key) ==
    /\ ~Holding
    /\ LET ke == Encode(keyCodec, key)
           d  == Decode(valCodec, RawGet(store, ke.b))
       IN  res' = IF ke.err # <<>>
                  THEN Result("Get", <<key>>, <<Zero(valCodec)>>, FALSE, ke.err, FALSE, <<>>)
                  ELSE IF d.panic
                  THEN Result("Get", <<key>>, <<>>, FALSE, <<>>, TRUE, <<"Get">>)
                  ELSE Result("Get", <<key>>, <<d.v>>, FALSE, d.err, FALSE, <<"Get">>)
    /\ NoIter
    /\ UNCHANGED <<call, before, readers, turns, keyCodec, valCodec, store, lastOp>>

\* A Put that writes the bytes it has when the value fails to encode.
PutWritesOnValueError(key, val) ==
    /\ ~Holding
    /\ LET ke == Encode(keyCodec, key)
           ve == Encode(valCodec, val)
       IN  IF ke.err # <<>>
           THEN /\ res' = Result("Put", <<key>>, <<val>>, FALSE, ke.err, FALSE, <<>>)
                /\ UNCHANGED <<store, lastOp>>
           ELSE /\ store' = RawPut(store, ke.b, ve.b)
                /\ lastOp' = IF ve.err = <<>> THEN Note(key, "put", <<val>>) ELSE lastOp
                /\ res' = Result("Put", <<key>>, <<val>>, FALSE, ve.err, FALSE, <<"Put">>)
    /\ NoIter
    /\ UNCHANGED <<call, before, readers, turns, keyCodec, valCodec>>

\* DB.Put
Put(key, val) ==
    /\ ~Holding
    /\ LET ke == Encode(keyCodec, key)
           ve == Encode(valCodec, val)
       IN  IF ke.err # <<>>
           THEN /\ res' = Result("Put", <<key>>, <<val>>, FALSE, ke.err, FALSE, <<>>)
                /\ UNCHANGED <<store, lastOp>>
           ELSE IF ve.err # <<>>
           THEN /\ res' = Result("Put", <<key>>, <<val>>, FALSE, ve.err, FALSE, <<>>)
                /\ UNCHANGED <<store, lastOp>>
           ELSE /\ store' = RawPut(store, ke.b, ve.b)
                /\ lastOp' = Note(key, "put", <<val>>)
                /\ res' = Result("Put", <<key>>, <<val>>, FALSE, <<>>, FALSE, <<"Put">>)
    /\ NoIter
    /\ UNCHANGED <<call, before, readers, turns, keyCodec, valCodec>>

\* A Del that calls the raw store with the bytes of a failed encoding.
DelIgnoresEncodeError(key) ==
    /\ ~Holding
    /\ LET ke == Encode(keyCodec, key)
       IN  /\ store' = RawDelete(store, ke.b)
           /\ lastOp' = IF ke.err = <<>> THEN Note(key, "del", <<>>) ELSE lastOp
           /\ res' = Result("Del", <<key>>, <<>>, FALSE, ke.err, FALSE, <<"Delete">>)
    /\ NoIter
    /\ UNCHANGED <<call, before, readers, turns, keyCodec, valCodec>>

\* DB.Del
Del(key) ==
    /\ ~Holding
    /\ LET ke == Encode(keyCodec, key)
       IN  IF ke.err # <<>>
           THEN /\ res' = Result("Del", <<key>>, <<>>, FALSE, ke.err, FALSE, <<>>)
                /\ UNCHANGED <<store, lastOp>>
           ELSE /\ store' = RawDelete(store, ke.b)
                /\ lastOp' = Note(key, "del", <<>>)
                /\ res' = Result("Del", <<key>>, <<>>, FALSE, <<>>, FALSE, <<"Delete">>)
    /\ NoIter
    /\ UNCHANGED <<call, before, readers, turns, keyCodec, valCodec>>

\* DB.Has
Has(key) ==
    /\ ~Holding
    /\ LET ke == Encode(keyCodec, key)
       IN  res' = IF ke.err # <<>>
                  THEN Result("Has", <<key>>, <<>>, FALSE, ke.err, FALSE, <<>>)
                  ELSE Result("Has", <<key>>, <<>>, RawHas(store, ke.b), <<>>, FALSE, <<"Has">>)
    /\ NoIter
    /\ UNCHANGED <<call, before, readers, turns, keyCodec, valCodec, store, lastOp>>

\* A Put on the embedded raw handle (DB embeds *pogreb.DB), with bytes the
\* codecs did not produce.
EmbeddedPut(kb, vb) ==
    /\ ~Holding
    /\ store' = RawPut(store, kb, vb)
    /\ lastOp' = [k \in DOMAIN lastOp |->
                    IF Encode(keyCodec, k).err = <<>> /\ Encode(keyCodec, k).b = kb
                    THEN [op |-> "raw", v |-> <<>>] ELSE lastOp[k]]
    /\ res' = Result("EmbeddedPut", <<>>, <<>>, FALSE, <<>>, FALSE, <<"Put">>)
    /\ NoIter
    /\ UNCHANGED <<call, before, readers, turns, keyCodec, valCodec>>

----------------------------------------------------------------------------
(* Iteration: Items, AllItems, Fold *)

\* What one call of the raw cursor's Next returns.
Pair(kb, vb) == [kb |-> kb, vb |-> vb, err |-> <<>>]
CursorErr(e) == [kb |-> <<>>, vb |-> <<>>, err |-> <<e>>]

\* The returns Next can make now: any pair not returned yet (the store's order
\* is its own), the sentinel once no pair is left, or a read error.
NextReturns ==
    {Pair(p[1], p[2]) : p \in cursor}
    \cup (IF cursor = {} THEN {CursorErr("ErrIterationDone")} ELSE {})
    \cup (IF ioErrs < MaxIOErr THEN {CursorErr("IOErr")} ELSE {})

\* The cursor after it returned r.
Advance(r) ==
    /\ cursor' = IF r.err = <<>> THEN cursor \ {<<r.kb, r.vb>>} ELSE cursor
    /\ ioErrs' = IF r.err = <<>> THEN ioErrs ELSE ioErrs + 1
    /\ visited' = Append(visited, r)

\* Items and AllItems: the key is decoded if Next gave no error, the value
\* if there is still no error.
DecodeLazy(r) ==
    LET k == IF r.err = <<>> THEN Decode(keyCodec, r.kb)
             ELSE [v |-> Zero(keyCodec), err |-> r.err, panic |-> FALSE]
        v == IF k.err = <<>> /\ ~k.panic THEN Decode(valCodec, r.vb)
             ELSE [v |-> Zero(valCodec), err |-> k.err, panic |-> k.panic]
    IN  [key |-> k.v, val |-> v.v, err |-> v.err, panic |-> v.panic]

\* Fold: err is joined with Next's error, both are decoded and their errors
\* joined to it.
DecodeJoin(err, r) ==
    LET k == Decode(keyCodec, r.kb)
        v == IF k.panic THEN [v |-> Zero(valCodec), err |-> <<>>, panic |-> TRUE]
             ELSE Decode(valCodec, r.vb)
    IN  [key |-> k.v, val |-> v.v,
         err |-> Join(Join(Join(err, r.err), k.err), v.err), panic |-> v.panic]

\* A call of Items, AllItems or Fold; opened: the call itself opens the raw
\* cursor (db.DB.Items()).  opens counts the raw cursors opened for the
\* sequence, ranges the ranges made over it; prior is "Cancelled" when the
\* iteration before this call, no CRUD operation in between, was a range its
\* consumer stopped with pairs left in the cursor.
Open(kind, opened) ==
    /\ ~Iterating
    /\ itKind' = kind
    /\ cursor' = IF opened THEN store ELSE {}
    /\ opens' = IF opened THEN 1 ELSE 0
    /\ ranges' = 0
    /\ prior' = IF itState = "Cancelled" /\ cursor # {} THEN "Cancelled" ELSE "none"
    /\ visited' = <<>> /\ out' = <<>> /\ ioErrs' = 0 /\ foldErr' = <<>> /\ foldRet' = <<>>
    /\ mark' = NoMark
    /\ res' = Result(kind, <<>>, <<>>, FALSE, <<>>, FALSE, <<>>)
    /\ UNCHANGED <<call, before, readers, turns, keyCodec, valCodec, store, lastOp>>

\* An Items that goes on with the cursor of the iteration before it while
\* that cursor has pairs left.
ItemsCallKeepsCursor ==
    /\ ~Iterating
    /\ itKind' = "Items" /\ itState' = "Created"
    /\ cursor' = IF cursor # {} THEN cursor ELSE store
    /\ opens' = 1 /\ ranges' = 0
    /\ prior' = IF itState = "Cancelled" /\ cursor # {} THEN "Cancelled" ELSE "none"
    /\ visited' = <<>> /\ out' = <<>> /\ ioErrs' = 0 /\ foldErr' = <<>> /\ foldRet' = <<>>
    /\ mark' = NoMark
    /\ res' = Result("Items", <<>>, <<>>, FALSE, <<>>, FALSE, <<>>)
    /\ UNCHANGED <<call, before, readers, turns, keyCodec, valCodec, store, lastOp>>

\* DB.Items: the cursor is opened by the call.
ItemsCall == Open("Items", TRUE) /\ itState' = "Created"

\* DB.AllItems: the call only builds the sequence.
AllItemsCall == Open("AllItems", FALSE) /\ itState' = "Created"

\* A range that opens a cursor each time it starts, over an Items() sequence
\* as over an AllItems() one.
RangeStartsAgain ==
    /\ itKind \in {"Items", "AllItems"}
    /\ ranges < MaxRanges
    /\ itState \in {"Created", "Exhausted", "Cancelled"}
    /\ itState' = "Active"
    /\ ranges' = ranges + 1
    /\ cursor' = store /\ opens' = opens + 1
    /\ visited' = <<>> /\ out' = <<>> /\ ioErrs' = 0
    /\ UNCHANGED <<call, before, readers, turns, keyCodec, valCodec, store, lastOp, res, itKind, foldErr, foldRet, prior>>

\* A range that opens the cursor of AllItems once, on the first range.
RangeOpensOnce ==
    /\ itKind \in {"Items", "AllItems"}
    /\ ranges < MaxRanges
    /\ itState \in {"Created", "Exhausted", "Cancelled"}
    /\ itState' = "Active"
    /\ ranges' = ranges + 1
    /\ IF itKind = "AllItems" /\ ranges = 0
       THEN /\ cursor' = store /\ opens' = opens + 1
            /\ visited' = <<>> /\ out' = <<>> /\ ioErrs' = 0
       ELSE UNCHANGED <<cursor, opens, visited, out, ioErrs>>
    /\ UNCHANGED <<call, before, readers, turns, keyCodec, valCodec, store, lastOp, res, itKind, foldErr, foldRet, prior>>

\* The consumer ranges over the sequence: the first time, or again after a
\* range it stopped or that reached the sentinel.  The function returned by
\* AllItems opens a cursor each time it runs; the one returned by Items goes on
\* with the cursor its call opened.
Range ==
    /\ itKind \in {"Items", "AllItems"}
    /\ ranges < MaxRanges
    /\ itState \in {"Created", "Exhausted", "Cancelled"}
    /\ itState' = "Active"
    /\ ranges' = ranges + 1
    /\ IF itKind = "AllItems"
       THEN /\ cursor' = store /\ opens' = opens + 1
            /\ visited' = <<>> /\ out' = <<>> /\ ioErrs' = 0
       ELSE UNCHANGED <<cursor, opens, visited, out, ioErrs>>
    /\ UNCHANGED <<call, before, readers, turns, keyCodec, valCodec, store, lastOp, res, itKind, foldErr, foldRet, prior>>

\* A loop of Items that ends the range at any error of the cursor.
ItemsStepEndsOnCursorError ==
    /\ itKind = "Items" /\ itState = "Active"
    /\ \E r \in NextReturns :
          IF isTerminate(r.err)
          THEN /\ itState' = "Exhausted"
               /\ UNCHANGED <<cursor, visited, out, ioErrs>>
          ELSE LET d == DecodeLazy(r)
               IN  /\ Advance(r)
                   /\ IF d.panic THEN itState' = "Panicked" /\ out' = out
                      ELSE IF r.err # <<>> THEN itState' = "Exhausted" /\ out' = out
                      ELSE IF d.err # <<>> THEN itState' = "Active" /\ out' = out
                      ELSE \E cont \in BOOLEAN :
                              /\ out' = Append(out, [key |-> d.key, val |-> d.val])
                              /\ itState' = IF cont THEN "Active" ELSE "Cancelled"
    /\ UNCHANGED <<call, before, mark, readers, turns, keyCodec, valCodec, store, lastOp, res, itKind, foldErr, foldRet,
                   opens, ranges, prior>>

\* One turn of the loop of Items.
ItemsStep ==
    /\ itKind = "Items" /\ itState = "Active"
    /\ \E r \in NextReturns :
          IF isTerminate(r.err)
          THEN /\ itState' = "Exhausted"
               /\ UNCHANGED <<cursor, visited, out, ioErrs>>
          ELSE LET d == DecodeLazy(r)
               IN  /\ Advance(r)
                   /\ IF d.panic THEN itState' = "Panicked" /\ out' = out
                      ELSE IF d.err # <<>> THEN itState' = "Active" /\ out' = out
                      ELSE \E cont \in BOOLEAN :
                              /\ out' = Append(out, [key |-> d.key, val |-> d.val])
                              /\ itState' = IF cont THEN "Active" ELSE "Cancelled"
    /\ UNCHANGED <<call, before, mark, readers, turns, keyCodec, valCodec, store, lastOp, res, itKind, foldErr, foldRet,
                   opens, ranges, prior>>

\* One turn of the loop of AllItems.
AllItemsStep ==
    /\ itKind = "AllItems" /\ itState = "Active"
    /\ \E r \in NextReturns :
          IF isTerminate(r.err)
          THEN /\ itState' = "Exhausted"
               /\ UNCHANGED <<cursor, visited, out, ioErrs>>
          ELSE LET d == DecodeLazy(r)
               IN  /\ Advance(r)
                   /\ IF d.panic THEN itState' = "Panicked" /\ out' = out
                      ELSE \E cont \in BOOLEAN :
                              /\ out' = Append(out, [key |-> d.key, val |-> d.val,
                                                     err |-> d.err])
                              /\ itState' = IF cont THEN "Active" ELSE "Cancelled"
    /\ UNCHANGED <<call, before, mark, readers, turns, keyCodec, valCodec, store, lastOp, res, itKind, foldErr, foldRet,
                   opens, ranges, prior>>

\* The caller leaves an iteration that ended: the range statement or the call
\* of Fold is behind it, the sequence and its cursor are dropped.
Leave ==
    /\ Holding /\ ~Iterating
    /\ NoIter
    /\ UNCHANGED <<call, before, readers, turns, keyCodec, valCodec, store, lastOp, res>>

\* The errors fn may return: nil or an error of its own.
FnReturns == {<<>>, <<"FnErr">>}

\* DB.Fold: the call opens the cursor and runs the loop.
FoldCall == Open("Fold", TRUE) /\ itState' = "Active"

\* A loop of Fold that runs until err is the sentinel, whatever fn returned.
FoldStepUntilTerminate ==
    /\ itKind = "Fold" /\ itState = "Active" /\ ~isTerminate(foldErr)
    /\ \E r \in NextReturns :
          IF isTerminate(r.err)
          THEN /\ itState' = "Exhausted" /\ foldRet' = <<(<<>>)>>
               /\ UNCHANGED <<cursor, visited, out, ioErrs, foldErr>>
          ELSE LET d == DecodeJoin(foldErr, r)
               IN  /\ Advance(r)
                   /\ IF d.panic
                      THEN /\ itState' = "Panicked"
                           /\ UNCHANGED <<out, foldErr, foldRet>>
                      ELSE \E ret \in FnReturns :
                              /\ out' = Append(out, [key |-> d.key, val |-> d.val,
                                                     err |-> d.err, ret |-> ret])
                              /\ foldErr' = ret
                              /\ itState' = "Active"
                              /\ foldRet' = foldRet
    /\ UNCHANGED <<call, before, mark, readers, turns, keyCodec, valCodec, store, lastOp, res, itKind, opens, ranges, prior>>

\* One turn of the loop of Fold, entered while err is nil.
FoldStep ==
    /\ itKind = "Fold" /\ itState = "Active" /\ foldErr = <<>>
    /\ \E r \in NextReturns :
          IF isTerminate(r.err)
          THEN /\ itState' = "Exhausted" /\ foldRet' = <<(<<>>)>>
               /\ UNCHANGED <<cursor, visited, out, ioErrs, foldErr>>
          ELSE LET d == DecodeJoin(foldErr, r)
               IN  /\ Advance(r)
                   /\ IF d.panic
                      THEN /\ itState' = "Panicked"
                           /\ UNCHANGED <<out, foldErr, foldRet>>
                      ELSE \E ret \in FnReturns :
                              /\ out' = Append(out, [key |-> d.key, val |-> d.val,
                                                     err |-> d.err, ret |-> ret])
                              /\ foldErr' = ret
                              /\ itState' = IF ret = <<>> THEN "Active" ELSE "Errored"
                              /\ foldRet' = IF ret = <<>> THEN foldRet ELSE <<ret>>
    /\ UNCHANGED <<call, before, mark, readers, turns, keyCodec, valCodec, store, lastOp, res, itKind, opens, ranges, prior>>

Next ==
    \/ \E k \in KeysOf(keyCodec) : Get(k)
    \/ \E k \in KeysOf(keyCodec), v \in ValsOf(valCodec) : Put(k, v)
    \/ \E k \in KeysOf(keyCodec) : Del(k)
    \/ \E k \in KeysOf(keyCodec) : Has(k)
    \/ \E kb \in RawKeys, vb \in RawVals :
          /\ kb \in ForeignKeysOf(keyCodec) \/ vb \in ForeignValsOf(valCodec)
          /\ EmbeddedPut(kb, vb)
    \/ ItemsCall
    \/ AllItemsCall
    \/ Range /\ UNCHANGED mark
    \/ ItemsStep
    \/ AllItemsStep
    \/ FoldCall
    \/ FoldStep
    \/ Leave

Spec == Init /\ [][Next]_vars

(* Get and Has called from several goroutines *)

\* DB.Get in goroutine g, up to the encoding of the key: the method has a
\* value receiver and works on its own copy of the handle and on locals.
GetEncode(g, key) ==
    /\ ~Holding
    /\ readers[g].pc = "idle"
    /\ LET ke == Encode(keyCodec, key)
       IN  readers' = [readers EXCEPT ![g] =
              IF ke.err # <<>>
              THEN [NoRead EXCEPT !.pc = "done", !.op = "Get", !.key = <<key>>,
                                  !.val = <<Zero(valCodec)>>, !.err = ke.err]
              ELSE [NoRead EXCEPT !.pc = "encoded", !.op = "Get", !.key = <<key>>,
                                  !.kb = ke.b]]
    /\ UNCHANGED <<call, before, mark, turns, keyCodec, valCodec, store, lastOp, res,
                   itKind, itState, cursor, visited, out, ioErrs, foldErr, foldRet,
                   opens, ranges, prior>>

\* A Get that keeps the encoded key in a buffer of the handle the goroutines
\* share: the raw store is asked for the key some goroutine encoded.
GetFetchSharedKey(g) ==
    /\ readers[g].pc = "encoded" /\ readers[g].op = "Get"
    /\ \E h \in Readers :
          /\ readers[h].pc = "encoded"
          /\ readers' = [readers EXCEPT ![g].pc = "fetched",
                                        ![g].b = RawGet(store, readers[h].kb)]
    /\ UNCHANGED <<call, before, mark, turns, keyCodec, valCodec, store, lastOp, res,
                   itKind, itState, cursor, visited, out, ioErrs, foldErr, foldRet,
                   opens, ranges, prior>>

\* DB.Get in goroutine g: db.DB.Get(kb), one call of the raw store.
GetFetch(g) ==
    /\ readers[g].pc = "encoded" /\ readers[g].op = "Get"
    /\ readers' = [readers EXCEPT ![g].pc = "fetched",
                                  ![g].b = RawGet(store, readers[g].kb)]
    /\ UNCHANGED <<call, before, mark, turns, keyCodec, valCodec, store, lastOp, res,
                   itKind, itState, cursor, visited, out, ioErrs, foldErr, foldRet,
                   opens, ranges, prior>>

\* DB.Get in goroutine g: the value bytes are decoded and Get returns.
GetDecode(g) ==
    /\ readers[g].pc = "fetched"
    /\ LET d == Decode(valCodec, readers[g].b)
       IN  readers' = [readers EXCEPT ![g].pc = "done",
                          ![g].val = IF d.panic THEN <<>> ELSE <<d.v>>,
                          ![g].err = d.err, ![g].panic = d.panic]
    /\ UNCHANGED <<call, before, mark, turns, keyCodec, valCodec, store, lastOp, res,
                   itKind, itState, cursor, visited, out, ioErrs, foldErr, foldRet,
                   opens, ranges, prior>>

\* DB.Has in goroutine g, up to the encoding of the key.
HasEncode(g, key) ==
    /\ ~Holding
    /\ readers[g].pc = "idle"
    /\ LET ke == Encode(keyCodec, key)
       IN  readers' = [readers EXCEPT ![g] =
              IF ke.err # <<>>
              THEN [NoRead EXCEPT !.pc = "done", !.op = "Has", !.key = <<key>>,
                                  !.err = ke.err]
              ELSE [NoRead EXCEPT !.pc = "encoded", !.op = "Has", !.key = <<key>>,
                                  !.kb = ke.b]]
    /\ UNCHANGED <<call, before, mark, turns, keyCodec, valCodec, store, lastOp, res,
                   itKind, itState, cursor, visited, out, ioErrs, foldErr, foldRet,
                   opens, ranges, prior>>

\* DB.Has in goroutine g: db.DB.Has(kb), one call of the raw store, whose
\* result Has returns.
HasFetch(g) ==
    /\ readers[g].pc = "encoded" /\ readers[g].op = "Has"
    /\ readers' = [readers EXCEPT ![g].pc = "done",
                                  ![g].found = RawHas(store, readers[g].kb)]
    /\ UNCHANGED <<call, before, mark, turns, keyCodec, valCodec, store, lastOp, res,
                   itKind, itState, cursor, visited, out, ioErrs, foldErr, foldRet,
                   opens, ranges, prior>>

\* Goroutine g used the result of its call and is over.
ReadDone(g) ==
    /\ readers[g].pc = "done"
    /\ readers' = [readers EXCEPT ![g] = NoRead]
    /\ UNCHANGED <<call, before, mark, turns, keyCodec, valCodec, store, lastOp, res,
                   itKind, itState, cursor, visited, out, ioErrs, foldErr, foldRet,
                   opens, ranges, prior>>

\* No goroutine is in a call of Get or Has.
NoReader == \A g \in Readers : readers[g].pc = "idle"

\* The store is written and ranged over while no goroutine reads it, and
\* read by the goroutines in any interleaving of their steps.
ReadNext ==
    \/ \E k \in KeysOf(keyCodec), v \in ValsOf(valCodec) : NoReader /\ Put(k, v)
    \/ \E g \in Readers, k \in KeysOf(keyCodec) : GetEncode(g, k)
    \/ \E g \in Readers : GetFetch(g)
    \/ \E g \in Readers : GetDecode(g)
    \/ \E g \in Readers, k \in KeysOf(keyCodec) : HasEncode(g, k)
    \/ \E g \in Readers : HasFetch(g)
    \/ \E g \in Readers : ReadDone(g)
    \/ NoReader /\ ItemsCall
    \/ NoReader /\ Range /\ UNCHANGED mark
    \/ NoReader /\ ItemsStep
    \/ NoReader /\ Leave

ReadSpec == Init /\ [][ReadNext]_vars

(* Ranging again over a sequence *)

\* The raw pairs the cursor returned so far to the sequence's ranges.
ReturnedPairs == {<<visited[i].kb, visited[i].vb>> :
                 i \in {j \in 1..Len(visited) : visited[j].err = <<>>}}

\* The start of a range, with a record of what came before it over the same
\* sequence value: how the range before ended, the number of results out
\* and of cursor returns visited held, and the raw pairs among those returns.
RangeAgain ==
    /\ Range
    /\ mark' = [from |-> itState, n |-> Len(out), v |-> Len(visited),
                seen |-> ReturnedPairs]

\* A caller that writes pairs, through the embedded raw handle some that the
\* decoders return an error for, and ranges over the sequences of Items() and
\* AllItems(), more than once over the same one.
RerangeNext ==
    \/ \E k \in KeysOf(keyCodec), v \in ValsOf(valCodec) : Put(k, v)
    \/ \E kb \in RawKeys, vb \in RawVals :
          /\ kb \in ForeignKeysOf(keyCodec) \/ vb \in ForeignValsOf(valCodec)
          /\ ~Decode(keyCodec, kb).panic /\ ~Decode(valCodec, vb).panic
          /\ EmbeddedPut(kb, vb)
    \/ ~Holding /\ ItemsCall
    \/ ~Holding /\ AllItemsCall
    \/ RangeAgain
    \/ ItemsStep
    \/ AllItemsStep
    \/ Leave

RerangeSpec == Init /\ [][RerangeNext]_vars

(* Items on a cursor that keeps failing *)

\* A turn of the loop of Items on a cursor that keeps failing: Next returns
\* once more the error it returned at the call before, which is no sentinel,
\* nothing is decoded and the loop goes on to its next turn (continue).  The
\* error is the last of visited already; turns is the parity of the turns
\* made on it.
ItemsStepSameError ==
    /\ itKind = "Items" /\ itState = "Active"
    /\ visited # <<>>
    /\ LET r == visited[Len(visited)]
       IN  /\ r.err # <<>> /\ ~isTerminate(r.err)
           /\ DecodeLazy(r).err # <<>>
    /\ turns' = 1 - turns
    /\ UNCHANGED <<call, before, mark, readers, keyCodec, valCodec, store, lastOp, res,
                   itKind, itState, cursor, visited, out, ioErrs, foldErr, foldRet,
                   opens, ranges, prior>>

\* One turn of the loop of Items, whatever the cursor returns.
ItemsTurn == ItemsStep \/ ItemsStepSameError

\* A caller that writes pairs and ranges over Items().
LiveNext ==
    \/ \E k \in KeysOf(keyCodec), v \in ValsOf(valCodec) : Put(k, v)
    \/ ItemsCall
    \/ Range /\ UNCHANGED mark
    \/ ItemsStep
    \/ ItemsStepSameError
    \/ Leave

\* The loop of a range that was started keeps running: a turn that can be
\* made is made.  What Next returns at a turn is the cursor's choice.
LiveSpec == Init /\ [][LiveNext]_vars /\ WF_vars(ItemsTurn)

----------------------------------------------------------------------------
(* The codecs called directly, as the codec tests call them *)

CodecNames == {"uint16", "uint32", "uint64", "uint", "int16", "int32", "int64", "int",
               "float32", "float64", "string", "bytes"}

\* Values of each codec's Go type on a 64-bit host, the extremes of the type
\* included; uint and int are 64 bits wide there.
TypedInputs(c) ==
    CASE c = "uint16" -> {<<0, 0, 0, 0>>, <<0, 0, 0, 1>>, <<0, 0, 0, 255>>, <<0, 0, 0, 256>>,
                          <<0, 0, 0, 65535>>}
      [] c = "int16" -> {FromInt(0), FromInt(1), FromInt(32767), FromInt(0 - 1),
                         FromInt(0 - 32768)}
      [] c = "uint32" -> {<<0, 0, 0, 0>>, <<0, 0, 0, 1>>, <<0, 0, 0, 65535>>, <<0, 0, 1, 0>>,
                          <<0, 0, 65535, 65535>>}
      [] c = "int32" -> {FromInt(0), FromInt(42), FromInt(0 - 42), FromInt(2147483647),
                         FromInt(-2147483647 - 1)}
      [] c = "uint64" -> {<<0, 0, 0, 0>>, <<0, 0, 0, 1>>, <<0, 0, 65535, 65535>>,
                          <<0, 1, 0, 0>>, <<32768, 0, 0, 0>>, <<65535, 65535, 65535, 65535>>}
      [] c = "int64" -> {FromInt(0), FromInt(0 - 1), <<0, 1, 0, 0>>, <<65535, 65534, 0, 0>>,
                         <<32767, 65535, 65535, 65535>>, <<32768, 0, 0, 0>>}
      [] c = "uint" -> {<<0, 0, 0, 0>>, <<0, 0, 0, 42>>, <<0, 0, 65535, 65535>>,
                        <<0, 1, 0, 0>>, <<0, 1, 0, 5>>, <<65535, 65535, 65535, 65535>>}
      [] c = "int" -> {FromInt(0), FromInt(42), FromInt(0 - 42), FromInt(1073741824),
                       FromInt(0 - 1073741824), FromInt(2147483647),
                       FromInt(-2147483647 - 1), <<0, 0, 32768, 0>>,
                       <<65535, 65535, 32767, 65535>>, <<0, 1, 0, 7>>, <<32768, 0, 0, 0>>}
      [] c = "float32" -> {<<0, 0, 0, 0>>, <<0, 0, 16256, 0>>, <<0, 0, 49024, 0>>,
                           <<0, 0, 32704, 1>>}
      [] c = "float64" -> {<<0, 0, 0, 0>>, <<16368, 0, 0, 0>>, <<49136, 0, 0, 0>>,
                           <<32760, 0, 0, 1>>}
      [] c \in {"string", "bytes"} -> {<<>>, <<104, 105>>, <<0, 0, 0>>, <<255>>}

\* Byte slices handed to Decode: nil or empty, shorter than each width, of
\* each width, and longer.
ByteInputs == {<<>>, <<1>>, <<255, 254>>, <<1, 2, 3>>, <<128, 0, 0, 1>>,
               <<1, 2, 3, 4, 5, 6, 7>>, <<255, 255, 255, 255, 0, 0, 0, 1>>,
               <<0, 0, 0, 0, 0, 0, 0, 42, 9>>}

\* codec.Encode(v)
EncodeCall(c, v) ==
    /\ call' = [op |-> "Encode", c |-> c, v |-> v, b |-> Encode(c, v).b,
                err |-> Encode(c, v).err, panic |-> FALSE]
    /\ before' = call
    /\ UNCHANGED dbVars

\* codec.Decode(b)
DecodeCall(c, b) ==
    /\ call' = [op |-> "Decode", c |-> c, v |-> Decode(c, b).v, b |-> b,
                err |-> Decode(c, b).err, panic |-> Decode(c, b).panic]
    /\ before' = call
    /\ UNCHANGED dbVars

\* The codec called before returned a result the next call may be given.
Returned(c) == call.c = c /\ call.err = <<>> /\ ~call.panic

CodecInit ==
    /\ keyCodec = "string" /\ valCodec = "int"
    /\ store = {}
    /\ lastOp = [k \in KeysOf(keyCodec) |-> [op |-> "none", v |-> <<>>]]
    /\ res = Result("Open", <<>>, <<>>, FALSE, <<>>, FALSE, <<>>)
    /\ itKind = "none" /\ itState = "Idle" /\ cursor = {} /\ visited = <<>>
    /\ out = <<>> /\ ioErrs = 0 /\ foldErr = <<>> /\ foldRet = <<>>
    /\ opens = 0 /\ ranges = 0 /\ prior = "none" /\ turns = 0
    /\ readers = [g \in Readers |-> NoRead] /\ mark = NoMark
    /\ call = NoCall /\ before = NoCall

\* A test encodes a value, decodes bytes, decodes what it encoded or encodes
\* what it decoded.
CodecNext ==
    \/ \E c \in CodecNames : \E v \in TypedInputs(c) : EncodeCall(c, v)
    \/ \E c \in CodecNames, b \in ByteInputs : DecodeCall(c, b)
    \/ \E c \in CodecNames : call.op = "Encode" /\ Returned(c) /\ DecodeCall(c, call.b)
    \/ \E c \in CodecNames : call.op = "Decode" /\ Returned(c) /\ EncodeCall(c, call.v)

CodecSpec == CodecInit /\ [][CodecNext]_vars



----------------------------------------------------------------------------
(* Properties of the typed CRUD operations *)

\* The key of the most recent CRUD operation, and whether its codec encodes it.
ResKey == res.key[1]
Encodable(k) == Encode(keyCodec, k).err = <<>>

\* C1: a get(k) after a completed put(k, v), with no put or delete of k since,
\* returns v and no error; after put(k, v1) and put(k, v2) that is v2.
C1_LatestWriteWins ==
    (res.op = "Get" /\ lastOp[ResKey].op = "put")
        => /\ ~res.panic
           /\ res.err = <<>>
           /\ res.val = lastOp[ResKey].v

\* A get returned a written value that is not the zero value.
C1_Witness ==
    /\ res.op = "Get" /\ lastOp[ResKey].op = "put"
    /\ res.val = lastOp[ResKey].v /\ res.val # <<Zero(valCodec)>>

\* C2: a get of a key that is absent (never put, or put and deleted) returns
\* the zero value of V and no error, and does not panic, whatever the value
\* codec.
C2_AbsentGetZero ==
    (res.op = "Get" /\ Encodable(ResKey) /\ lastOp[ResKey].op \in {"none", "del"})
        => /\ ~res.panic
           /\ res.err = <<>>
           /\ res.val = <<Zero(valCodec)>>

\* C3: after puts and deletes, has(k) returns no error and is true exactly
\* when the most recent operation on k was a put; a delete of an absent key
\* returns no error and leaves the store as it was.
C3_HasIffLastPut ==
    /\ [](res.op = "Has" /\ Encodable(ResKey) /\ lastOp[ResKey].op \in {"none", "put", "del"}
            => res.err = <<>> /\ (res.ok <=> lastOp[ResKey].op = "put"))
    /\ [][res'.op = "Del" /\ Encodable(res'.key[1]) /\ ~RawHas(store, Encode(keyCodec, res'.key[1]).b)
            => res'.err = <<>> /\ store' = store]_vars

\* has answered false for a key that was put and then deleted.
C3_Witness ==
    /\ res.op = "Has" /\ lastOp[ResKey].op = "del" /\ ~res.ok /\ store # {}

\* C4: a put whose key or value fails to encode returns that encode error,
\* makes no call on the raw store and leaves the store as it was.
C4_PutEncodeFailure ==
    [][res'.op = "Put" /\ (~Encodable(res'.key[1]) \/ Encode(valCodec, res'.val[1]).err # <<>>)
        => /\ res'.err = IF ~Encodable(res'.key[1]) THEN Encode(keyCodec, res'.key[1]).err
                         ELSE Encode(valCodec, res'.val[1]).err
           /\ res'.raw = <<>>
           /\ store' = store]_vars

\* A put of a value that does not encode failed on a key that holds a value.
C4_Witness ==
    /\ res.op = "Put" /\ res.err # <<>> /\ Encodable(ResKey)
    /\ lastOp[ResKey].op = "put" /\ RawHas(store, Encode(keyCodec, ResKey).b)

\* C5: when the key fails to encode, get, delete and has return that encode
\* error (get with the zero value, has with false), make no call on the raw
\* store and leave the store as it was.
C5_KeyEncodeFailure ==
    [][res'.op \in {"Get", "Del", "Has"} /\ ~Encodable(res'.key[1])
        => /\ res'.err = Encode(keyCodec, res'.key[1]).err
           /\ res'.raw = <<>>
           /\ store' = store
           /\ (res'.op = "Get" => res'.val = <<Zero(valCodec)>>)
           /\ (res'.op = "Has" => ~res'.ok)]_vars

\* A delete of a key that does not encode failed on a store that holds pairs.
C5_Witness ==
    /\ res.op = "Del" /\ ~Encodable(ResKey) /\ res.err # <<>> /\ store # {}


----------------------------------------------------------------------------
(* Properties of the iterations *)

\* What the cursor returned: a raw pair, or a read error.
IsPair(r) == r.err = <<>>
KeyDec(r) == Decode(keyCodec, r.kb)
ValDec(r) == Decode(valCodec, r.vb)

\* Both decoders return the pair's key and value without error.
Decodable(r) ==
    /\ IsPair(r)
    /\ ~KeyDec(r).panic /\ KeyDec(r).err = <<>>
    /\ ~ValDec(r).panic /\ ValDec(r).err = <<>>

\* A decoder returns an error for the pair's key or, the key decoded, for its
\* value.
DecodeFails(r) ==
    /\ IsPair(r)
    /\ ~KeyDec(r).panic
    /\ KeyDec(r).err # <<>> \/ (~ValDec(r).panic /\ ValDec(r).err # <<>>)

PairAt(i) == <<visited[i].kb, visited[i].vb>>
PairIndexes == {i \in 1..Len(visited) : IsPair(visited[i])}

\* The cursor returned every pair of the store, each once.
Covers ==
    /\ {PairAt(i) : i \in PairIndexes} = store
    /\ Cardinality(PairIndexes) = Cardinality(store)

Last(s) == s[Len(s)]

\* The iteration was ended by a decoder that panicked on a raw pair.
PanickedOnPair == itState = "Panicked" /\ IsPair(Last(visited))

\* Items as far as the decoders return: the pairs yielded are, in cursor
\* order, the pairs returned so far whose key and value both decode; a range
\* that ends at the sentinel has visited every pair of the store, and one the
\* consumer stopped ended at a yield.
ItemsSkipsReturnedErrors ==
    itKind = "Items" =>
        LET sel == SelectSeq(visited, Decodable)
        IN  /\ out = [i \in 1..Len(sel) |-> [key |-> KeyDec(sel[i]).v, val |-> ValDec(sel[i]).v]]
            /\ (itState = "Exhausted" => Covers)
            /\ (itState = "Cancelled" => visited # <<>> /\ Decodable(Last(visited)))

\* C6: a range over Items() yields, in cursor order, exactly the raw pairs
\* whose key and value both decode; a pair that does not decode is dropped and
\* never ends the range, which goes on to the later pairs.
C6_ItemsYieldsDecodable ==
    /\ ItemsSkipsReturnedErrors
    /\ itKind = "Items" => ~PanickedOnPair

\* AllItems as far as the decoders return: one result for each return of the
\* cursor, in cursor order, whose error is non-nil for a raw pair exactly when
\* a decoder returned an error; a range that ends at the sentinel has visited
\* every pair of the store.
AllItemsYieldsReturnedErrors ==
    itKind = "AllItems" =>
        /\ Len(out) = Len(visited) - (IF itState = "Panicked" THEN 1 ELSE 0)
        /\ \A i \in 1..Len(out) :
              IsPair(visited[i]) =>
                 /\ out[i].err # <<>> <=> DecodeFails(visited[i])
                 /\ out[i].err = <<>> =>
                       out[i].key = KeyDec(visited[i]).v /\ out[i].val = ValDec(visited[i]).v
        /\ (itState = "Exhausted" => Covers)
        /\ (itState = "Exhausted" /\ store = {} /\ ioErrs = 0 => out = <<>>)

\* C7: a range over AllItems() yields one result for each raw pair the cursor
\* returns, in cursor order, with a non-nil error exactly for the pairs whose
\* key or value does not decode; such a pair never ends the range (only the
\* sentinel or the consumer does); an empty store yields nothing.
C7_AllItemsOnePerPair ==
    /\ AllItemsYieldsReturnedErrors
    /\ itKind = "AllItems" => ~PanickedOnPair

\* C8: once fn returns a non-nil error Fold stops: that call of fn is the
\* last, the cursor is not advanced again, and Fold returns that error.
C8_FoldStopsOnFnError ==
    itKind = "Fold" =>
        \A i \in 1..Len(out) :
            out[i].ret # <<>> =>
                /\ i = Len(out)
                /\ Len(visited) = Len(out)
                /\ itState = "Errored"
                /\ foldRet = <<out[i].ret>>

\* fn failed on its second call and a third pair was never visited.
C8_Witness ==
    /\ itKind = "Fold" /\ itState = "Errored" /\ Len(out) = 2
    /\ out[1].ret = <<>> /\ out[2].ret # <<>> /\ cursor # {}

\* Fold as far as the decoders return: fn is called once for each return of
\* the cursor, in cursor order, with a nil error for a pair that decodes
\* whatever the earlier calls were passed; Fold returns nil at the sentinel,
\* every pair of the store visited, and ends with an error only when fn
\* returned one.
FoldCallsFnPerReturn ==
    itKind = "Fold" =>
        /\ Len(out) = Len(visited) - (IF itState = "Panicked" THEN 1 ELSE 0)
        /\ \A i \in 1..Len(out) :
              /\ out[i].key = KeyDec(visited[i]).v /\ out[i].val = ValDec(visited[i]).v
              /\ Decodable(visited[i]) => out[i].err = <<>>
        /\ (itState = "Exhausted" =>
               /\ foldRet = <<(<<>>)>>
               /\ Covers
               /\ \A i \in 1..Len(out) : out[i].ret = <<>>)
        /\ (itState = "Errored" => out # <<>> /\ Last(out).ret # <<>>)

\* C9: while fn returns nil Fold calls fn once for every raw pair, in cursor
\* order, and returns nil at the sentinel, decode errors passed to fn
\* notwithstanding; the error of one call is not carried into a later one.
C9_FoldRunsToSentinel ==
    /\ FoldCallsFnPerReturn
    /\ itKind = "Fold" => ~PanickedOnPair

\* The err Fold passes to fn for a raw pair is the key decoder's error joined
\* with the value decoder's, nil exactly when neither returned one, and the
\* fields are the values the decoders returned.
FoldJoinsReturnedErrors ==
    itKind = "Fold" =>
        \A i \in 1..Len(out) :
            IsPair(visited[i]) =>
                /\ out[i].err # <<>> <=> (KeyDec(visited[i]).err # <<>> \/ ValDec(visited[i]).err # <<>>)
                /\ out[i].err = KeyDec(visited[i]).err \o ValDec(visited[i]).err
                /\ out[i].key = KeyDec(visited[i]).v
                /\ out[i].val = ValDec(visited[i]).v

\* C10: for every raw pair Fold visits both decoders are applied and fn is
\* passed an err that is non-nil exactly when one of them failed, holding the
\* key error and the value error when both did; a field that failed to decode
\* is passed as the value its decoder returned.
C10_FoldJoinsDecodeErrors ==
    /\ FoldJoinsReturnedErrors
    /\ itKind = "Fold" => ~PanickedOnPair

\* The cursor's latest return was an error of its own, not a raw pair.
CursorErrorReturned ==
    /\ Len(visited') = Len(visited) + 1
    /\ ~IsPair(Last(visited'))

\* C11 (as the code has it): an error of the cursor's Next that isTerminate
\* does not match (neither ErrIterationDone nor io.EOF) does not end the
\* range: Items yields nothing for it and calls Next again; AllItems yields
\* one result, the zero Entry with that error, and calls Next again unless the
\* consumer stops there; the cursor keeps the pairs it had not returned.
C11_CursorErrorGoesOn ==
    [][(itKind \in {"Items", "AllItems"} /\ CursorErrorReturned)
          => /\ cursor' = cursor
             /\ (itKind = "Items" => (out' = out /\ itState' = "Active"))
             /\ (itKind = "AllItems" =>
                    /\ out' = Append(out, [key |-> Zero(keyCodec), val |-> Zero(valCodec),
                                           err |-> Last(visited').err])
                    /\ itState' \in {"Active", "Cancelled"})]_vars

\* AllItems yielded a cursor error to the consumer and, after it, a pair.
C11_Witness ==
    /\ itKind = "AllItems"
    /\ \E i \in 1..(Len(out) - 1) :
          /\ ~IsPair(visited[i]) /\ out[i].err = <<"IOErr">>
          /\ IsPair(visited[i + 1]) /\ out[i + 1].err = <<>>

\* C11 (as stated): an error of the cursor's Next other than the sentinel
\* ends a range over Items or AllItems silently: it is the cursor's last
\* return, the range is over, and nothing is yielded for it.
C11_CursorErrorEndsSilently ==
    itKind \in {"Items", "AllItems"} =>
        \A i \in 1..Len(visited) :
            ~IsPair(visited[i]) =>
                /\ i = Len(visited)
                /\ itState = "Exhausted"
                /\ (itKind = "AllItems" => Len(out) < Len(visited))

\* The pairs of the store whose key and value both decode.
DecodableEntries == {p \in store : Decodable(Pair(p[1], p[2]))}

\* C12: no step of an iteration (a call of Items, AllItems or Fold, the start
\* of a range, a turn of the loop, complete or stopped by the consumer)
\* changes the pairs of the store, and a range over a fresh Items() that
\* reaches the sentinel has visited every pair of the store and yielded every
\* decodable entry, whatever iteration came before it.
C12_IterationKeepsStore ==
    /\ [][itState' # "Idle" => store' = store]_vars
    /\ []((itKind = "Items" /\ itState = "Exhausted")
            => (Covers /\ Len(out) = Cardinality(DecodableEntries)))

\* A range was stopped with pairs left unvisited; the Items called after it
\* yielded every entry of a store of two or more.
C12_Witness ==
    /\ prior = "Cancelled"
    /\ itKind = "Items" /\ itState = "Exhausted"
    /\ Cardinality(store) >= 2
    /\ Len(out) = Cardinality(store)

----------------------------------------------------------------------------
(* Properties of the codecs *)

\* C13: Decode of a numeric codec of width w (unsigned, signed, float, and
\* the platform-width int and uint) given fewer than w/8 bytes, the empty
\* slice included, returns a DecodeError; it does not panic.
C13_ShortInputDecodeError ==
    (call.op = "Decode" /\ Numeric(call.c) /\ Len(call.b) < Width(call.c))
        => (~call.panic /\ call.err # <<>>)

FixedInts == {"uint16", "uint32", "uint64", "int16", "int32", "int64"}

\* The latest call decoded the bytes the call before it encoded, same codec.
DecodedBack ==
    /\ call.op = "Decode" /\ before.op = "Encode"
    /\ call.c = before.c /\ call.b = before.b

\* C14: for the codecs of uint16, uint32, uint64, int16, int32 and int64 and
\* every value of the type, minimum, maximum and negatives included, Encode
\* returns no error and Decode of the encoded bytes returns the value and no
\* error.
C14_FixedWidthRoundTrip ==
    /\ (call.op = "Encode" /\ call.c \in FixedInts) => call.err = <<>>
    /\ (DecodedBack /\ call.c \in FixedInts)
          => (~call.panic /\ call.err = <<>> /\ call.v = before.v)

\* The least int16, -32768, came back from its two bytes 0x80 0x00.
C14_Witness ==
    /\ DecodedBack /\ call.c = "int16"
    /\ before.v = FromInt(0 - 32768) /\ call.b = <<128, 0>>
    /\ call.v = FromInt(0 - 32768)

\* The byte length documented for each numeric codec.
DocumentedLen(c) == IF c \in {"uint16", "int16"} THEN 2
                    ELSE IF c \in {"uint64", "int64", "float64"} THEN 8
                    ELSE 4

\* C15: Encode of a 16-bit, 32-bit or 64-bit numeric codec returns exactly
\* 2, 4 or 8 bytes, and Encode of IntCodec and of UintCodec exactly 4 bytes,
\* whatever the magnitude of the value.
C15_FixedWidth ==
    (call.op = "Encode" /\ Numeric(call.c))
        => (call.err = <<>> /\ Len(call.b) = DocumentedLen(call.c))

\* UintCodec encoded the greatest 64-bit uint in four bytes.
C15_Witness ==
    /\ call.op = "Encode" /\ call.c = "uint"
    /\ call.v = <<65535, 65535, 65535, 65535>>
    /\ Len(call.b) = 4

\* a comes before b in lexicographic order (bytes.Compare(a, b) < 0 on byte
\* slices; numeric order on two words of four limbs).
SeqLess(a, b) ==
    \/ \E i \in 1..Len(a) :
          /\ i <= Len(b)
          /\ a[i] < b[i]
          /\ \A j \in 1..(i - 1) : a[j] = b[j]
    \/ /\ Len(a) < Len(b)
       /\ \A j \in 1..Len(a) : a[j] = b[j]

\* The two latest calls encoded two values with the same codec.
EncodedTwo == call.op = "Encode" /\ before.op = "Encode" /\ call.c = before.c

\* C16: for the codecs of uint16, uint32 and uint64 and values a < b of the
\* type, Encode(a) is strictly smaller than Encode(b) in byte-lexicographic
\* order.
C16_UnsignedOrder ==
    (EncodedTwo /\ call.c \in {"uint16", "uint32", "uint64"})
        => /\ SeqLess(before.v, call.v) => SeqLess(before.b, call.b)
           /\ SeqLess(call.v, before.v) => SeqLess(call.b, before.b)

\* Uint16Codec encoded 255 as 0x00 0xFF and then 256 as 0x01 0x00.
C16_Witness ==
    /\ EncodedTwo /\ call.c = "uint16"
    /\ before.v = <<0, 0, 0, 255>> /\ before.b = <<0, 255>>
    /\ call.v = <<0, 0, 0, 256>> /\ call.b = <<1, 0>>

\* v mod 2^32, and v truncated to a signed 32-bit integer.
Mod32(v) == <<0, 0, v[3], v[4]>>
Trunc32(v) == IF v[3] >= 32768 THEN <<65535, 65535, v[3], v[4]>> ELSE <<0, 0, v[3], v[4]>>

\* v lies in the range of uint32 (for uint) or of int32 (for int).
InRange32(c, v) ==
    IF c = "uint" THEN v[1] = 0 /\ v[2] = 0
    ELSE \/ v[1] = 0 /\ v[2] = 0 /\ v[3] < 32768
         \/ v[1] = 65535 /\ v[2] = 65535 /\ v[3] >= 32768

\* C17: on a 64-bit host UintCodec decodes what it encoded from v to
\* v mod 2^32 and IntCodec to v truncated to a signed 32-bit integer, with no
\* error: the result is v for every v inside the 32-bit range, negative ints
\* included, and differs from v exactly outside it.
C17_PlatformWidthNormalizes ==
    (DecodedBack /\ call.c \in {"uint", "int"})
        => /\ ~call.panic /\ call.err = <<>>
           /\ call.v = (IF call.c = "uint" THEN Mod32(before.v) ELSE Trunc32(before.v))
           /\ (call.v = before.v) <=> InRange32(call.c, before.v)

\* IntCodec gave -42 back from 0xFF 0xFF 0xFF 0xD6.
C17_Witness ==
    /\ DecodedBack /\ call.c = "int"
    /\ before.v = FromInt(0 - 42) /\ call.b = <<255, 255, 255, 214>>
    /\ call.v = FromInt(0 - 42)

\* The latest call encoded the value the call before it decoded, same codec.
EncodedBack ==
    /\ call.op = "Encode" /\ before.op = "Decode"
    /\ call.c = before.c /\ call.v = before.v

----------------------------------------------------------------------------
(* Properties of the cursors and of the life of an iteration *)

\* C19 (as the code has it): Items and Fold open exactly one raw cursor, at
\* the call, however often the sequence of Items is ranged over; AllItems
\* opens none at the call and one at the start of every range over the
\* sequence it returned.
C19_CursorsOpened ==
    /\ itKind \in {"Items", "Fold"} => opens = 1
    /\ itKind = "AllItems" => opens = ranges

\* A sequence of AllItems was ranged over twice and opened two cursors.
C19_Witness ==
    /\ itKind = "AllItems" /\ ranges = 2 /\ opens = 2
    /\ itState = "Exhausted" /\ out # <<>>

\* C19 (as stated): each call of Items, AllItems or Fold has opened exactly
\* one raw cursor, from the call on and however often the returned sequence
\* is ranged over.
C19_OneCursorPerCall ==
    itKind \in {"Items", "AllItems", "Fold"} => opens = 1

\* The ends of an iteration the protocol names.
Terminal == {"Exhausted", "Cancelled", "Errored"}

\* How each end is reached: Exhausted at the sentinel, the cursor empty;
\* Cancelled by the consumer of Items or AllItems, at a yield; Errored by fn
\* in Fold, whose error Fold returns.
EndsAsNamed ==
    /\ itState = "Exhausted" => cursor = {}
    /\ itState = "Cancelled" => (itKind \in {"Items", "AllItems"} /\ out # <<>>)
    /\ itState = "Errored" => (itKind = "Fold" /\ out # <<>> /\ foldRet = <<Last(out).ret>>
                                 /\ Last(out).ret # <<>>)

\* The life of an iteration as far as the decoders return: Created is left
\* only for Active, Active only for an end (or by a decoder's panic), and
\* after an end the cursor is not advanced and nothing is yielded or passed to
\* fn until a new call or a new range over the sequence.
IterationLifecycle ==
    /\ []EndsAsNamed
    /\ [][/\ itState = "Created" => itState' = "Active"
          /\ itState = "Active" => itState' \in (Terminal \cup {"Active", "Panicked"})
          /\ itState \in Terminal =>
                \/ itState' = "Idle"
                \/ itState' = "Created"
                \/ itState' = "Active" /\ itKind' = "Fold" /\ visited' = <<>>
                \/ itState' = "Active" /\ ranges' = ranges + 1
                                       /\ (itKind = "Items" => UNCHANGED <<cursor, visited, out>>)]_vars

\* C20: every iteration goes Created -> Active -> one end and reaches exactly
\* one of Exhausted (the cursor returned the sentinel), Cancelled (yield
\* returned false; Items and AllItems only) and Errored (fn returned an
\* error; Fold only): it has no other end.
C20_OneOfThreeEnds ==
    /\ EndsAsNamed
    /\ itState \in (Terminal \cup {"Idle", "Created", "Active"})

\* An active range over Items() ends, unless the cursor fails with the same
\* error again and again for ever.
ItemsRangeEndsUnlessCursorKeepsFailing ==
    \/ []<><<ItemsStepSameError>>_vars
    \/ (itKind = "Items" /\ itState = "Active") ~> (itState # "Active")

\* C21: a range over Items() that was started ends (at the sentinel, at the
\* consumer's stop or at a panic) after finitely many turns of the loop,
\* whatever the cursor returns at each call of Next.
C21_ItemsRangeEnds ==
    (itKind = "Items" /\ itState = "Active") ~> (itState # "Active")

\* Goroutine g has the result of a Get of a key whose latest typed write is
\* a Put.
GotWritten(g) ==
    /\ readers[g].pc = "done" /\ readers[g].op = "Get"
    /\ lastOp[readers[g].key[1]].op = "put"

\* A step of a Get or a Has of some goroutine, or of an iteration.
ReadStep == readers' # readers \/ itState' # itState \/ visited' # visited

\* C22: every Get that goroutines make at the same time, no writer running,
\* of a key written by Put returns no error and the value written last,
\* whatever the interleaving of their steps; and no step of a Get, of a Has
\* or of an iteration changes a field of the handle (the codecs) or the
\* pairs of the store.
C22_ConcurrentReads ==
    /\ [](\A g \in Readers :
            GotWritten(g) => /\ ~readers[g].panic
                             /\ readers[g].err = <<>>
                             /\ readers[g].val = lastOp[readers[g].key[1]].v)
    /\ [][ReadStep => UNCHANGED <<keyCodec, valCodec, store>>]_vars

\* Two goroutines hold the results of Gets of different keys, both written,
\* that they made at the same time.
C22_Witness ==
    \E g, h \in Readers :
        /\ g # h /\ GotWritten(g) /\ GotWritten(h)
        /\ readers[g].key # readers[h].key
        /\ readers[g].val # readers[h].val

\* Fold at an error of the cursor, as far as the decoders return: fn is
\* called once for it with the cursor's error joined with the errors the
\* decoders return for the (nil) key and value bytes, which is not nil; Fold
\* goes on when fn returns nil and ends with fn's error when it returns one.
FoldPassesCursorError ==
    itKind = "Fold" =>
        /\ \A i \in 1..Len(out) :
              ~IsPair(visited[i]) =>
                  /\ out[i].err = visited[i].err \o KeyDec(visited[i]).err
                                                 \o ValDec(visited[i]).err
                  /\ out[i].err # <<>>
                  /\ i < Len(out) => out[i].ret = <<>>
        /\ out # <<>> => (itState = "Errored" <=> Last(out).ret # <<>>)
        /\ itState = "Errored" => foldRet = <<Last(out).ret>>

\* fn was passed a cursor error joined with decode errors, returned nil, and
\* Fold went on to the next pair.
FoldWentOnAfterCursorError ==
    /\ itKind = "Fold" /\ Len(out) >= 2
    /\ \E i \in 1..(Len(out) - 1) :
          /\ ~IsPair(visited[i]) /\ Len(out[i].err) = 3
          /\ IsPair(visited[i + 1])

\* C23: at an error of the cursor's Next that is not the sentinel Fold does
\* not stop by itself: it calls fn once with the cursor's error joined with
\* the errors of decoding the returned key and value bytes, and goes on or
\* ends as fn's return value says.
C23_FoldPassesCursorError ==
    /\ FoldPassesCursorError
    /\ (itKind = "Fold" /\ visited # <<>> /\ ~IsPair(Last(visited)))
          => (itState # "Panicked" /\ Len(out) = Len(visited))

\* AllItems as far as the decoders return: for a raw pair whose key decoder
\* returns an error the Entry holds that error alone, the value decoder's
\* not joined to it, and the zero Value; for one whose value decoder alone
\* returns an error it holds the decoded Key, the zero Value and that error.
AllItemsDecodesValueAfterKey ==
    itKind = "AllItems" =>
        \A i \in 1..Len(out) :
            IsPair(visited[i]) =>
                /\ KeyDec(visited[i]).err # <<>> =>
                      /\ out[i].err = KeyDec(visited[i]).err
                      /\ out[i].val = Zero(valCodec)
                /\ (KeyDec(visited[i]).err = <<>> /\ ValDec(visited[i]).err # <<>>) =>
                      /\ out[i].key = KeyDec(visited[i]).v
                      /\ out[i].val = Zero(valCodec)
                      /\ out[i].err = ValDec(visited[i]).err

\* AllItems yielded a pair neither of whose parts decodes, with the key's
\* error, and a pair whose value alone does not decode.
AllItemsYieldedKeyErrorAlone ==
    /\ itKind = "AllItems"
    /\ \E i, j \in 1..Len(out) :
          /\ IsPair(visited[i])
          /\ KeyDec(visited[i]).err # <<>> /\ ValDec(visited[i]).err # <<>>
          /\ KeyDec(visited[i]).err # ValDec(visited[i]).err
          /\ IsPair(visited[j])
          /\ KeyDec(visited[j]).err = <<>> /\ ValDec(visited[j]).err # <<>>

\* C24: Items and AllItems decode the value of a raw pair only when its key
\* decoded; for a key that fails to decode AllItems yields the zero Value and
\* the key's error alone, for a value that alone fails to decode the decoded
\* Key, the zero Value and the value's error.
C24_ValueDecodedAfterKey ==
    /\ AllItemsDecodesValueAfterKey
    /\ (itKind = "AllItems" /\ visited # <<>> /\ IsPair(Last(visited)))
          => (itState # "Panicked" /\ Len(out) = Len(visited))

\* The raw pairs the cursor returned since the latest range began.
ReturnedInRange ==
    {PairAt(i) : i \in {j \in PairIndexes : j > (IF itKind = "Items" THEN mark.v ELSE 0)}}

\* C25: the sequence of one Items() call has one cursor and does not start
\* again: a range over it that follows a range the consumer stopped keeps
\* the results yielded before and goes on with the pairs the cursor had not
\* returned, none of the earlier ones again; a range that follows one that
\* reached the sentinel returns and yields nothing.  A range over an
\* AllItems() sequence that follows another starts with a cursor over every
\* pair of the store, the ones the range before returned among them.
C25_ItemsResumesAllItemsRestarts ==
    /\ [](ranges >= 2 =>
            /\ itKind = "Items" =>
                  /\ Len(out) >= mark.n /\ Len(visited) >= mark.v
                  /\ ReturnedInRange \cap mark.seen = {}
                  /\ cursor \cap mark.seen = {}
                  /\ Len(out) - mark.n <= Cardinality(ReturnedInRange)
                  /\ mark.from = "Exhausted" =>
                        (Len(out) = mark.n /\ ReturnedInRange = {})
            /\ itKind = "AllItems" =>
                  /\ mark.seen \subseteq ReturnedInRange \cup cursor
                  /\ ReturnedInRange \cup cursor = store
                  /\ Len(out) <= Len(visited)
                  /\ (itState = "Exhausted" => mark.seen \subseteq ReturnedInRange))
    /\ [][ranges' = ranges + 1 =>
            /\ itKind = "Items" => (cursor' = cursor /\ out' = out)
            /\ itKind = "AllItems" => (cursor' = store /\ out' = <<>>)]_vars

\* A range over an Items() sequence was stopped after some pairs, and the
\* next range over the same sequence yielded a pair.
C25_Witness ==
    /\ itKind = "Items" /\ ranges = 2
    /\ mark.from = "Cancelled" /\ mark.n >= 1
    /\ Len(out) > mark.n

\* A range over an Items() sequence followed one that reached the sentinel
\* with pairs yielded, and ended.
ItemsRangedAfterExhaustion ==
    /\ itKind = "Items" /\ ranges = 2
    /\ mark.from = "Exhausted" /\ mark.n >= 1
    /\ itState = "Exhausted"

\* A second range over an AllItems() sequence returned a pair again that the
\* first range had returned.
AllItemsReturnedAgain ==
    /\ itKind = "AllItems" /\ ranges = 2
    /\ mark.seen \cap ReturnedInRange # {}

====
